---- MODULE Spec2Model ----
(***************************************************************************)
(* Model of odxtools' state-transition evaluator                           *)
(* (statetransitionref.py, statetransition.py) and of the link database    *)
(* build / resolution protocol of Database.refresh (database.py).          *)
(*                                                                         *)
(* Python values are modelled as tagged records so that a comparison of    *)
(* values of different Python types is "not equal" instead of ill-typed.   *)
(* Strings that the code parses or splits are sequences of tokens.         *)
(***************************************************************************)
EXTENDS Integers, Sequences, FiniteSets, TLC

VARIABLES
    active_state,      \* StateMachine.active_state, per running state machine
    refs,              \* the StateTransitionRef objects of the resolved chart
    params,            \* the parameter list handed to execute
    param_value_dict,  \* the decoded values handed to execute
    call,              \* the last execute call: machine, reference, state before
    ret,               \* how the last execute call ended
    doc_errors,        \* what the last execute call reported through odxraise
    resolved,          \* what _resolve_in_param yielded in the last call
    post_init_errors,  \* what the construction of each reference reported
    comparam_subsets,       \* Database._comparam_subsets
    comparam_specs,         \* Database._comparam_specs
    diag_layer_containers,  \* Database._diag_layer_containers
    model_version,          \* Database.model_version
    odxlinks,               \* Database._odxlinks: link id -> entity
    state_transition,       \* StateTransitionRef._state_transition per reference
    snref_states,           \* StateTransition._source_state, ._target_state
    db_errors,              \* what the last database operation reported
    last_op,                \* the last database operation
    sweep_log,              \* the steps of the last refresh, in order
    refreshed_at            \* the number of categories at the last two refreshes

vars == <<active_state, refs, params, param_value_dict, call, ret, doc_errors,
          resolved, post_init_errors, comparam_subsets, comparam_specs, diag_layer_containers,
          model_version, odxlinks, state_transition, snref_states, db_errors,
          last_op, sweep_log, refreshed_at>>

evalVars == <<active_state, refs, params, param_value_dict, call, ret,
              doc_errors, resolved, post_init_errors>>

dbVars == <<comparam_subsets, comparam_specs, diag_layer_containers,
            model_version, odxlinks, state_transition, snref_states, db_errors,
            last_op, sweep_log, refreshed_at>>

(***************************************************************************)
(* Python values                                                           *)
(***************************************************************************)
NoneV == [t |-> "none"]
IntV(n) == [t |-> "int", i |-> n]
StrV(s) == [t |-> "str", s |-> s]
TupleV(e) == [t |-> "tuple", e |-> e]
DictV(d) == [t |-> "dict", d |-> d]

\* a == b of Python, for the value shapes above
PyEq(a, b) == a = b

\* dict.get(key): the entry, or None
DictGet(d, key) == IF key \in DOMAIN d.d THEN d.d[key] ELSE NoneV

(***************************************************************************)
(* Bounds                                                                  *)
(***************************************************************************)
\* nesting depth of the composite parameter, and so the longest path
MaxDepth == 3
\* number of documents added to one database
MaxDocs == 3

(***************************************************************************)
(* The resolved chart: states and transitions                              *)
(***************************************************************************)
\* the running state machines of Spec, one per diagnostic session
Machines == {"m1"}
States == {"IDLE", "ACTIVE", "LOCKED"}

\* StateTransition objects after _resolve_snrefs: source_state, target_state
StateTransitions ==
    [T1 |-> [source_state |-> "IDLE", target_state |-> "ACTIVE"],
     T2 |-> [source_state |-> "ACTIVE", target_state |-> "LOCKED"],
     T3 |-> [source_state |-> "LOCKED", target_state |-> "IDLE"],
     T4 |-> [source_state |-> "ACTIVE", target_state |-> "ACTIVE"]]

(***************************************************************************)
(* Parameters                                                              *)
(***************************************************************************)
NoParam == [kind |-> "None"]
NoDop == [t |-> "none"]
\* a DataObjectProperty with the base data type of its physical type
SimpleDop(base) == [t |-> "DataObjectProperty", base_data_type |-> base]
\* a Structure (a BasicStructure) with its parameters
Structure(ps) == [t |-> "BasicStructure", parameters |-> ps]
TableRow(name, structure) == [short_name |-> name, structure |-> structure]

Param(name, kind, dop, default, rows) ==
    [short_name |-> name, kind |-> kind, dop |-> dop,
     physical_default_value |-> default, table_rows |-> rows]

ParamX == Param(<<"x">>, "Value", SimpleDop("A_UINT32"), NoneV, <<>>)

\* a Value parameter whose DOP is a structure, nested d levels deep
RECURSIVE StructParam(_)
StructParam(d) ==
    Param(<<"cval">>, "Value",
          Structure(<<ParamX>> \o (IF d > 2 THEN <<StructParam(d - 1)>> ELSE <<>>)),
          NoneV, <<>>)

\* its decoded value
RECURSIVE StructValue(_)
StructValue(d) ==
    DictV((<<"x">> :> IntV(d + 3)) @@
          (IF d > 2 THEN (<<"cval">> :> StructValue(d - 1)) ELSE <<>>))

\* the path cval.cval. ... .x with d segments
RECURSIVE DeepPath(_)
DeepPath(d) == IF d = 1 THEN <<"x">> ELSE <<"cval", ".">> \o DeepPath(d - 1)

ResponseParams ==
    << Param(<<"sid">>, "CodedConst", NoDop, NoneV, <<>>),
       Param(<<"pc">>, "PhysicalConstant", SimpleDop("A_UINT32"), NoneV, <<>>),
       Param(<<"key">>, "TableKey", NoDop, NoneV, <<>>),
       Param(<<"val">>, "Value", SimpleDop("A_UINT32"), NoneV, <<>>),
       Param(<<"dval">>, "Value", SimpleDop("A_UINT32"), IntV(5), <<>>),
       Param(<<"sval">>, "Value", SimpleDop("A_UNICODE2STRING"), NoneV, <<>>),
       Param(<<"nodop">>, "Value", NoDop, NoneV, <<>>),
       StructParam(MaxDepth),
       Param(<<"table">>, "TableStruct", NoDop, NoneV,
             << TableRow(<<"ROW_A">>, Structure(<<ParamX>>)),
                TableRow(<<"ROW_C">>, NoDop) >>),
       Param(<<"sys">>, "System", SimpleDop("A_UINT32"), NoneV, <<>>) >>

(***************************************************************************)
(* Decoded responses                                                       *)
(***************************************************************************)
InnerX == DictV(<<"x">> :> IntV(1))

\* every parameter of ResponseParams decoded, the table with row ROW_A
FullDict ==
    (<<"sid">> :> IntV(5)) @@ (<<"pc">> :> IntV(5)) @@ (<<"key">> :> IntV(5)) @@
    (<<"val">> :> IntV(5)) @@ (<<"dval">> :> IntV(6)) @@
    (<<"sval">> :> StrV(<<"5">>)) @@ (<<"nodop">> :> IntV(5)) @@
    (<<"cval">> :> StructValue(MaxDepth)) @@
    (<<"table">> :> TupleV(<<<<"ROW_A">>, InnerX>>)) @@
    (<<"sys">> :> IntV(5))

With(d, key, value) == (key :> value) @@ d

ValueDicts ==
    { DictV(<<>>), DictV(FullDict),
      DictV(With(FullDict, <<"val">>, IntV(6))),
      DictV(With(FullDict, <<"val">>, InnerX)),
      DictV(With(FullDict, <<"sys">>, InnerX)),
      DictV(With(FullDict, <<"cval">>, IntV(5))),
      DictV(With(FullDict, <<"table">>, IntV(5))),
      DictV(With(FullDict, <<"table">>, TupleV(<<<<"ROW_B">>, InnerX>>))),
      DictV(With(FullDict, <<"table">>, TupleV(<<<<"ROW_C">>, InnerX>>))),
      DictV(With(FullDict, <<"table">>, TupleV(<<<<"ROW_A">>, IntV(5)>>))) }

(***************************************************************************)
(* Short-name lookup and diagnostics                                       *)
(***************************************************************************)
\* odxraise(message): the diagnostic is recorded and the caller continues
odxraise(errors, message) == Append(errors, message)

\* resolve_snref(target_short_name, items): the first item of that name;
\* an unknown name is reported and yields None
resolve_snref(target_short_name, items, none) ==
    LET candidates == SelectSeq(items, LAMBDA x : x.short_name = target_short_name)
    IN  IF candidates = <<>>
        THEN [obj |-> none, errors |-> odxraise(<<>>, "UnknownShortName")]
        ELSE [obj |-> candidates[1], errors |-> <<>>]

\* str.split("."): the token runs between the dots
RECURSIVE split(_)
split(s) ==
    IF \A k \in 1..Len(s) : s[k] # "."
    THEN <<s>>
    ELSE LET k == CHOOSE j \in 1..Len(s) :
                      s[j] = "." /\ \A h \in 1..(j - 1) : s[h] # "."
         IN  <<SubSeq(s, 1, k - 1)>> \o split(SubSeq(s, k + 1, Len(s)))

(***************************************************************************)
(* _resolve_in_param_helper, _resolve_in_param                             *)
(***************************************************************************)
\* how a resolver call ends: a (parameter, value) pair or an exception
Found(param, value, errors) ==
    [exc |-> "", param |-> param, value |-> value, errors |-> errors]
NotFound(errors) ==
    [exc |-> "", param |-> NoParam, value |-> NoneV, errors |-> errors]
Raised(exc, errors) ==
    [exc |-> exc, param |-> NoParam, value |-> NoneV, errors |-> errors]
Reporting(errors, r) == [r EXCEPT !.errors = errors \o @]

\* line 60: the value of a table struct parameter is rejected
InvalidTableValue(v) == v.t # "tuple" \/ Len(v.e) = 2

RECURSIVE _resolve_in_param_helper(_, _, _)
_resolve_in_param_helper(ps, param_dict, path_chunks) ==
    LET r == resolve_snref(path_chunks[1], ps, NoParam)
        inner_param == r.obj
        inner_param_value == DictGet(param_dict, path_chunks[1])
        rest == Tail(path_chunks)
        \* lines 83-87
        Descend(bound, inner_param_list, value, errors) ==
            IF value.t # "dict"
            THEN NotFound(odxraise(errors, "NotComposite"))
            ELSE IF ~bound
            THEN Raised("UnboundLocalError", errors)
            ELSE Reporting(errors,
                           _resolve_in_param_helper(inner_param_list, value, rest))
    IN  IF inner_param.kind = "None" THEN NotFound(r.errors)
        ELSE IF Len(path_chunks) = 1 THEN Found(inner_param, inner_param_value, <<>>)
        ELSE IF inner_param.kind = "TableStruct"
        THEN IF InvalidTableValue(inner_param_value)
             THEN NotFound(odxraise(<<>>, "InvalidTableStructValue"))
             ELSE IF Len(inner_param_value.e) = 0
             THEN Raised("IndexError", <<>>)
             ELSE LET tr == resolve_snref(inner_param_value.e[1],
                                          inner_param.table_rows, NoParam)
                  IN  IF tr.obj = NoParam
                      THEN Raised("AttributeError", tr.errors)
                      ELSE IF tr.obj.structure.t = "none"
                      THEN NotFound(odxraise(<<>>, "RowWithoutStructure"))
                      ELSE IF Len(inner_param_value.e) < 2
                      THEN Raised("IndexError", <<>>)
                      ELSE Descend(TRUE, tr.obj.structure.parameters,
                                   inner_param_value.e[2], <<>>)
        ELSE IF inner_param.dop.t = "BasicStructure"
             THEN Descend(TRUE, inner_param.dop.parameters, inner_param_value, <<>>)
             ELSE Descend(FALSE, <<>>, inner_param_value,
                          odxraise(<<>>, "NotComposite"))

\* Optional[str]: None or a string
IsNone(v) == v.t = "none"

\* the path is looked at before the plain short name
_resolve_in_param_path_first(in_param_if_snref, in_param_if_snpathref, ps, param_dict) ==
    IF ~IsNone(in_param_if_snpathref)
    THEN _resolve_in_param_helper(ps, param_dict, split(in_param_if_snpathref.s))
    ELSE IF ~IsNone(in_param_if_snref)
    THEN _resolve_in_param_helper(ps, param_dict, <<in_param_if_snref.s>>)
    ELSE NotFound(<<>>)

\* only a plain short name is followed
_resolve_in_param_snref_only(in_param_if_snref, in_param_if_snpathref, ps, param_dict) ==
    IF ~IsNone(in_param_if_snref)
    THEN _resolve_in_param_helper(ps, param_dict, <<in_param_if_snref.s>>)
    ELSE NotFound(<<>>)

_resolve_in_param(in_param_if_snref, in_param_if_snpathref, ps, param_dict) ==
    IF ~IsNone(in_param_if_snref)
    THEN _resolve_in_param_helper(ps, param_dict, <<in_param_if_snref.s>>)
    ELSE IF ~IsNone(in_param_if_snpathref)
    THEN _resolve_in_param_helper(ps, param_dict, split(in_param_if_snpathref.s))
    ELSE NotFound(<<>>)

(***************************************************************************)
(* DataType.from_string                                                    *)
(***************************************************************************)
Digit(c) ==
    CASE c = "0" -> 0 [] c = "1" -> 1 [] c = "2" -> 2 [] c = "3" -> 3
      [] c = "4" -> 4 [] c = "5" -> 5 [] c = "6" -> 6 [] c = "7" -> 7
      [] c = "8" -> 8 [] c = "9" -> 9

\* int(s) for a string of decimal digits
RECURSIVE ParseInt(_)
ParseInt(s) ==
    IF s = <<>> THEN 0
    ELSE ParseInt(SubSeq(s, 1, Len(s) - 1)) * 10 + Digit(s[Len(s)])

\* the literal converted according to the base data type
from_string(base_data_type, value) ==
    IF base_data_type = "A_UINT32" THEN IntV(ParseInt(value)) ELSE StrV(value)

(***************************************************************************)
(* StateTransitionRef.execute                                              *)
(***************************************************************************)
StateTransitionRef(st, value, snref, snpathref) ==
    [state_transition |-> st, value |-> value,
     in_param_if_snref |-> snref, in_param_if_snpathref |-> snpathref]

\* odxassert(condition, message): a failed assertion is reported like a
\* diagnostic and the caller continues
odxassert(condition, message) == IF condition THEN <<>> ELSE <<message>>

\* lines 130-133: the assertion tests in_param_if_snref in both operands
__post_init__(self) ==
    IF ~IsNone(self.value)
    THEN odxassert(~IsNone(self.in_param_if_snref) \/ ~IsNone(self.in_param_if_snref),
                   "ValueWithoutParameter")
    ELSE <<>>

\* a table key is not taken for a constant
ConstKindsWithoutTableKey == {"CodedConst", "PhysicalConstant"}
ConstKinds == {"CodedConst", "PhysicalConstant", "TableKey"}
\* the type gate lets every parameter with a DOP through
ConditionKindsLax == ConstKinds \cup {"Value", "System"}
ConditionKinds == ConstKinds \cup {"Value"}

\* how an execute call ends: the return value or the exception, the active
\* state it leaves, the diagnostics it reported, what the resolver yielded
Outcome(r, active, errors, res) ==
    [ret |-> r, active_state |-> active, errors |-> errors, resolved |-> res]
NotCalled == [exc |-> "not called"]

\* the fallback to the physical default value is missing
ActualParamValueNoDefault(param, found_value) == found_value

\* a missing value counts as 0
ActualParamValueOrZero(param, found_value) ==
    IF IsNone(found_value) THEN IntV(0) ELSE found_value

\* lines 204-205: the decoded value, or else the physical default value
ActualParamValue(param, found_value) ==
    IF IsNone(found_value) THEN param.physical_default_value ELSE found_value

\* lines 197-217: the comparison for a Value parameter
ValueParameterCase(self, st, active, param, found_value, res) ==
    IF IsNone(self.value)
    THEN Outcome("False", active, odxraise(res.errors, "MissingValue"), res)
    ELSE LET param_value == ActualParamValue(param, found_value)
         IN  IF IsNone(param_value)
             THEN Outcome("False", active, odxraise(res.errors, "NoParamValue"), res)
             ELSE IF param.dop.t # "DataObjectProperty"
             THEN Outcome("False", active, odxraise(res.errors, "NonSimpleDop"), res)
             ELSE LET expected_value ==
                          from_string(param.dop.base_data_type, self.value.s)
                  IN  IF ~PyEq(expected_value, param_value)
                      THEN Outcome("False", active, res.errors, res)
                      ELSE Outcome("True", st.target_state, res.errors, res)

\* the gate compares the wrong end of the transition
WrongStateByTarget(st, active) == st.target_state # active

\* the gate is missing
WrongStateNever(st, active) == FALSE

\* lines 165-166: the machine is not in the source state
WrongState(st, active) == st.source_state # active

\* a VALUE alone makes the reference conditional
UnconditionalWithoutValue(self) ==
    /\ IsNone(self.in_param_if_snref)
    /\ IsNone(self.in_param_if_snpathref)
    /\ IsNone(self.value)

\* line 168: the reference does not depend on a parameter
Unconditional(self) ==
    IsNone(self.in_param_if_snref) /\ IsNone(self.in_param_if_snpathref)

execute(self, active, ps, param_value_dict_) ==
    LET st == StateTransitions[self.state_transition]
    IN  IF WrongState(st, active)
        THEN Outcome("False", active, <<>>, NotCalled)
        ELSE IF Unconditional(self)
        THEN Outcome("True", st.target_state, <<>>, NotCalled)
        ELSE LET res == _resolve_in_param(self.in_param_if_snref,
                                          self.in_param_if_snpathref,
                                          ps, param_value_dict_)
                 param == res.param
             IN  IF res.exc # ""
                 THEN Outcome(res.exc, active, res.errors, res)
                 ELSE IF param.kind = "None"
                 THEN Outcome("False", active, res.errors, res)
                 ELSE IF param.kind \notin ConditionKinds
                 THEN Outcome("False", active,
                              odxraise(res.errors, "InvalidParamType"), res)
                 ELSE IF param.kind \in ConstKinds /\ ~IsNone(self.value)
                 THEN Outcome("False", active,
                              odxraise(res.errors, "ValueForConstParam"), res)
                 ELSE IF param.kind = "Value"
                 THEN ValueParameterCase(self, st, active, param, res.value, res)
                 ELSE Outcome("True", st.target_state, res.errors, res)

(***************************************************************************)
(* The documents' transition references and the responses                  *)
(***************************************************************************)
Literals == {NoneV, StrV(<<"5">>), StrV(<<"6">>), StrV(<<"0", "5">>)}

SnRefs ==
    {NoneV} \cup
    { StrV(<<n>>) : n \in {"sid", "pc", "key", "val", "dval", "sval", "nodop",
                           "cval", "table", "sys", "nope"} }

SnPathRefs ==
    {NoneV, StrV(<<"table", ".", "x">>), StrV(<<"val", ".", "x">>),
     StrV(<<"sys", ".", "x">>), StrV(<<"nope", ".", "x">>), StrV(<<"val">>)}
    \cup { StrV(DeepPath(d)) : d \in 2..MaxDepth }

\* the conditions a document may put on a transition reference: VALUE,
\* IN-PARAM-IF-SNREF, IN-PARAM-IF-SNPATHREF, each optional
Conditions ==
    { c \in [value : Literals, snref : SnRefs, snpathref : SnPathRefs] :
        \/ IsNone(c.snref)
        \/ IsNone(c.snpathref)
        \/ /\ c.snref \in {StrV(<<"val">>), StrV(<<"nope">>)}
           /\ c.snpathref \in {StrV(<<"table", ".", "x">>), StrV(<<"val">>)} }

\* the references of a chart: one unconditional and one conditional
\* reference per transition
ChartRefs(c) ==
    { StateTransitionRef(t, NoneV, NoneV, NoneV) : t \in DOMAIN StateTransitions }
    \cup
    { StateTransitionRef(t, c.value, c.snref, c.snpathref) :
        t \in DOMAIN StateTransitions }

AllRefs == UNION { ChartRefs(c) : c \in Conditions }

Responses ==
    { <<ResponseParams, d>> : d \in ValueDicts }
    \cup { <<<<>>, DictV(<<>>)>>, <<<<>>, DictV(FullDict)>> }

NoCall == [machine |-> "none"]

(***************************************************************************)
(* Database state before any document is added                             *)
(***************************************************************************)
DbInit ==
    /\ comparam_subsets = <<>>
    /\ comparam_specs = <<>>
    /\ diag_layer_containers = <<>>
    /\ model_version = "None"
    /\ odxlinks = <<>>
    /\ state_transition = <<>>
    /\ snref_states = <<>>
    /\ db_errors = <<>>
    /\ last_op = "none"
    /\ sweep_log = <<>>
    /\ refreshed_at = <<>>

(***************************************************************************)
(* The evaluator                                                           *)
(***************************************************************************)
Init ==
    /\ active_state = [m \in Machines |-> "IDLE"]
    /\ \E c \in Conditions : refs = ChartRefs(c)
    /\ post_init_errors = [self \in refs |-> __post_init__(self)]
    /\ params = <<>>
    /\ param_value_dict = DictV(<<>>)
    /\ call = NoCall
    /\ ret = "None"
    /\ doc_errors = <<>>
    /\ resolved = NotCalled
    /\ DbInit

\* a response was received and decoded: its parameters and their values
Receive(response) ==
    /\ params' = response[1]
    /\ param_value_dict' = response[2]
    /\ call' = NoCall
    /\ ret' = "None"
    /\ doc_errors' = <<>>
    /\ resolved' = NotCalled
    /\ UNCHANGED <<active_state, refs, post_init_errors, dbVars>>

\* the active state is one field that all machines share
SetActiveStateShared(machines, m, state) == [ k \in DOMAIN machines |-> state ]

\* lines 171 and 219: state_machine.active_state = ...
SetActiveState(machines, m, state) == [machines EXCEPT ![m] = state]

\* self.execute(state_machine, params, param_value_dict)
Execute(m, self) ==
    LET o == execute(self, active_state[m], params, param_value_dict)
    IN  /\ m \in DOMAIN active_state
        /\ self \in refs
        /\ active_state' = SetActiveState(active_state, m, o.active_state)
        /\ call' = [machine |-> m, self |-> self, before |-> active_state[m]]
        /\ ret' = o.ret
        /\ doc_errors' = o.errors
        /\ resolved' = o.resolved
        /\ UNCHANGED <<refs, post_init_errors, params, param_value_dict, dbVars>>

Next ==
    \/ \E response \in Responses : Receive(response)
    \/ \E m \in Machines, self \in AllRefs : Execute(m, self)

Spec == Init /\ [][Next]_vars

(***************************************************************************)
(* Two running state machines on the same resolved chart                   *)
(***************************************************************************)
TwoMachines == {"m1", "m2"}

\* conditions on a parameter with and without default value and on a path
TwoConditions ==
    { c \in Conditions :
        /\ c.value \in {NoneV, StrV(<<"5">>)}
        /\ \/ /\ c.snref \in {NoneV, StrV(<<"dval">>), StrV(<<"val">>)}
              /\ IsNone(c.snpathref)
           \/ /\ IsNone(c.snref)
              /\ c.snpathref = StrV(DeepPath(2)) }

InitTwo ==
    /\ active_state = [m \in TwoMachines |-> "IDLE"]
    /\ \E c \in TwoConditions : refs = ChartRefs(c)
    /\ post_init_errors = [self \in refs |-> __post_init__(self)]
    /\ params = <<>>
    /\ param_value_dict = DictV(<<>>)
    /\ call = NoCall
    /\ ret = "None"
    /\ doc_errors = <<>>
    /\ resolved = NotCalled
    /\ DbInit

NextTwo ==
    \/ \E response \in Responses : Receive(response)
    \/ \E m \in TwoMachines, self \in AllRefs : Execute(m, self)

SpecTwo == InitTwo /\ [][NextTwo]_vars

(***************************************************************************)
(* Properties of execute                                                   *)
(***************************************************************************)
Called == call # NoCall
CallSt == StateTransitions[call.self.state_transition]
CallActive == active_state[call.machine]
InSource == CallSt.source_state = call.before
Conditional ==
    ~IsNone(call.self.in_param_if_snref) \/ ~IsNone(call.self.in_param_if_snpathref)
Fired == ret = "True" /\ CallActive = CallSt.target_state
Declined == ret = "False" /\ CallActive = call.before

\* C1: a call whose transition's source state differs from the machine's
\* active state returns false and leaves the active state unchanged, before
\* any parameter is resolved and before any document error is reported.
C1_StateGate ==
    (Called /\ ~InSource) =>
        /\ Declined
        /\ resolved = NotCalled
        /\ doc_errors = <<>>

\* a conditional reference with a VALUE, called in another state on a
\* decoded response
C1_Witness ==
    /\ Called /\ ~InSource
    /\ ~IsNone(call.self.value)
    /\ ~IsNone(call.self.in_param_if_snpathref)
    /\ params # <<>>
    /\ ret = "False"

\* C2: a reference with neither snref nor snref-path, called in the source
\* state, sets the active state to the target state and returns true.
C2_Unconditional ==
    (Called /\ InSource /\ ~Conditional) => Fired

\* such a reference carrying a VALUE, on a decoded response
C2_Witness ==
    /\ Called /\ InSource /\ ~Conditional
    /\ ~IsNone(call.self.value)
    /\ param_value_dict = DictV(FullDict)
    /\ ret = "True"
    /\ CallActive # call.before

\* C3: for an unconditional reference S -> T with S # T, a call in S
\* returns true and makes T active, and the next call of the same reference
\* on the same machine returns false and leaves T active.
C3_FireThenDecline ==
    [][ /\ ( /\ call' # NoCall /\ call' # call
             /\ Unconditional(call'.self)
             /\ StateTransitions[call'.self.state_transition].source_state
                    # StateTransitions[call'.self.state_transition].target_state
             /\ call'.before
                    = StateTransitions[call'.self.state_transition].source_state )
           => ( /\ ret' = "True"
                /\ active_state'[call'.machine]
                       = StateTransitions[call'.self.state_transition].target_state )
        /\ ( /\ Called /\ call' # NoCall /\ call' # call
             /\ call'.self = call.self /\ call'.machine = call.machine
             /\ ~Conditional /\ InSource /\ ret = "True"
             /\ CallSt.source_state # CallSt.target_state )
           => ( /\ ret' = "False"
                /\ active_state'[call'.machine] = CallSt.target_state ) ]_vars

\* the unconditional reference IDLE -> ACTIVE was called with ACTIVE active
C3_Witness ==
    /\ Called
    /\ call.self = StateTransitionRef("T1", NoneV, NoneV, NoneV)
    /\ call.before = "ACTIVE"
    /\ ret = "False"
    /\ CallActive = "ACTIVE"

\* C4: every call either returns true and leaves the target state of its
\* transition active, or returns false and leaves the active state as it was.
C4_FireOrDecline ==
    Called => (Fired \/ Declined)

\* what the resolver found for the last call
FoundParam == resolved # NotCalled /\ resolved.exc = "" /\ resolved.param.kind # "None"

\* C5: for a Value parameter with a simple DOP, in the source state and
\* with a literal, the call fires exactly if the literal, converted by the
\* base data type, equals the decoded value or, when there is none, the
\* physical default value; otherwise it declines.
C5_ValueComparison ==
    ( /\ Called /\ InSource /\ Conditional /\ FoundParam
      /\ resolved.param.kind = "Value"
      /\ resolved.param.dop.t = "DataObjectProperty"
      /\ ~IsNone(call.self.value) ) =>
        LET decoded == IF ~IsNone(call.self.in_param_if_snref)
                       THEN DictGet(param_value_dict, call.self.in_param_if_snref.s)
                       ELSE resolved.value
            actual == IF IsNone(decoded)
                      THEN resolved.param.physical_default_value
                      ELSE decoded
            literal == call.self.value.s
            numeric == resolved.param.dop.base_data_type = "A_UINT32"
            equal == IF numeric
                     THEN \/ literal \in {<<"5">>, <<"0", "5">>} /\ actual = IntV(5)
                          \/ literal = <<"6">> /\ actual = IntV(6)
                     ELSE actual = StrV(literal)
        IN  /\ equal => Fired
            /\ ~equal => Declined

\* the decoded value is absent and the literal equals the default value
C5_Witness ==
    /\ Called /\ InSource /\ FoundParam
    /\ call.self.in_param_if_snref = StrV(<<"dval">>)
    /\ call.self.value = StrV(<<"0", "5">>)
    /\ param_value_dict = DictV(<<>>)
    /\ ret = "True"

\* C6: for the table parameter decoded as (row, inner dictionary) and the
\* path table.x, the resolver yields parameter x of the row's structure
\* with its value in the inner dictionary; when the row is unknown or has
\* no structure the path does not resolve.
C6_TablePath ==
    ( /\ Called /\ resolved # NotCalled
      /\ IsNone(call.self.in_param_if_snref)
      /\ call.self.in_param_if_snpathref = StrV(<<"table", ".", "x">>)
      /\ params = ResponseParams
      /\ DictGet(param_value_dict, <<"table">>).t = "tuple"
      /\ Len(DictGet(param_value_dict, <<"table">>).e) = 2
      /\ DictGet(param_value_dict, <<"table">>).e[2].t = "dict" ) =>
        LET row == DictGet(param_value_dict, <<"table">>).e[1]
            inner == DictGet(param_value_dict, <<"table">>).e[2]
        IN  IF row = <<"ROW_A">>
            THEN /\ resolved.exc = ""
                 /\ resolved.param = ParamX
                 /\ resolved.value = DictGet(inner, <<"x">>)
            ELSE resolved.param.kind = "None"

\* C7: a condition on a parameter that is not a CodedConst,
\* PhysicalConstant, TableKey or Value parameter reports a document error,
\* returns false and leaves the active state unchanged.
C7_TypeGate ==
    ( /\ Called /\ InSource /\ Conditional /\ FoundParam
      /\ resolved.param.kind
             \notin {"CodedConst", "PhysicalConstant", "TableKey", "Value"} ) =>
        /\ Declined
        /\ doc_errors # <<>>
        /\ doc_errors[Len(doc_errors)] = "InvalidParamType"

\* a condition without VALUE on a parameter of another type that was decoded
C7_Witness ==
    /\ Called /\ InSource /\ FoundParam
    /\ resolved.param.kind = "System"
    /\ IsNone(call.self.value)
    /\ ~IsNone(resolved.value)
    /\ ret = "False"

\* C8: execute always returns a boolean; in particular a path with
\* remaining segments at a parameter that is not composite, or whose value
\* is not a dictionary, is reported, does not resolve, and the call
\* returns false without changing the active state.
C8_NeverThrows ==
    Called =>
        /\ ret \in {"True", "False"}
        /\ ( /\ InSource /\ IsNone(call.self.in_param_if_snref)
             /\ call.self.in_param_if_snpathref
                    \in {StrV(<<"val", ".", "x">>), StrV(<<"sys", ".", "x">>)}
             /\ params = ResponseParams ) =>
               /\ Declined
               /\ resolved.exc = ""
               /\ resolved.param.kind = "None"
               /\ doc_errors # <<>>

\* the last diagnostic of the last call
LastError == IF doc_errors = <<>> THEN "" ELSE doc_errors[Len(doc_errors)]

\* C14: for a condition that resolves to a CodedConst, PhysicalConstant or
\* TableKey parameter, called in the source state: with a VALUE literal the
\* call reports a document error, returns false and leaves the active state
\* unchanged; without one it fires, whatever the decoded value is.
C14_ConstParameter ==
    ( /\ Called /\ InSource /\ Conditional /\ FoundParam
      /\ resolved.param.kind \in {"CodedConst", "PhysicalConstant", "TableKey"} ) =>
        IF ~IsNone(call.self.value)
        THEN Declined /\ LastError = "ValueForConstParam"
        ELSE Fired /\ doc_errors = <<>>

\* a literal on the table key, whose decoded value equals the literal
C14_Witness ==
    /\ Called /\ InSource /\ FoundParam
    /\ resolved.param.kind = "TableKey"
    /\ call.self.value = StrV(<<"5">>)
    /\ resolved.value = IntV(5)
    /\ ret = "False"
    /\ LastError = "ValueForConstParam"

\* C15: for a condition that resolves to a Value parameter, called in the
\* source state, the call reports a document error, returns false and leaves
\* the active state unchanged when there is no VALUE literal, when there is
\* neither a decoded value nor a physical default value, and when the
\* parameter's DOP is absent or not a simple DOP.
C15_ValueParameterErrors ==
    ( /\ Called /\ InSource /\ Conditional /\ FoundParam
      /\ resolved.param.kind = "Value" ) =>
        LET no_literal == IsNone(call.self.value)
            no_value == /\ IsNone(resolved.value)
                        /\ IsNone(resolved.param.physical_default_value)
            no_simple_dop == resolved.param.dop.t # "DataObjectProperty"
        IN  /\ no_literal => (Declined /\ LastError = "MissingValue")
            /\ (~no_literal /\ no_value) =>
                   (Declined /\ LastError = "NoParamValue")
            /\ (~no_literal /\ ~no_value /\ no_simple_dop) =>
                   (Declined /\ LastError = "NonSimpleDop")

\* a literal on a parameter without default whose value was not decoded
C15_Witness ==
    /\ Called /\ InSource /\ FoundParam
    /\ resolved.param.short_name = <<"val">>
    /\ ~IsNone(call.self.value)
    /\ IsNone(resolved.value)
    /\ ret = "False"
    /\ LastError = "NoParamValue"

\* the value a dictionary holds at a path of keys
RECURSIVE ValueAt(_, _)
ValueAt(v, chunks) ==
    IF chunks = <<>> THEN v ELSE ValueAt(DictGet(v, Head(chunks)), Tail(chunks))

\* the segments of the path cval. ... .x with d segments
DeepChunks(d) == [ k \in 1..d |-> IF k = d THEN <<"x">> ELSE <<"cval">> ]

\* C20: for a path of several segments through the Value parameter cval,
\* whose DOP is a structure and whose decoded value is a nested dictionary,
\* the resolver goes on with the structure's parameters and that dictionary
\* and yields the parameter and the value that the remaining segments
\* address.
C20_StructurePath ==
    \A d \in 2..MaxDepth :
        ( /\ Called /\ resolved # NotCalled
          /\ IsNone(call.self.in_param_if_snref)
          /\ call.self.in_param_if_snpathref = StrV(DeepPath(d))
          /\ params = ResponseParams
          /\ DictGet(param_value_dict, <<"cval">>).t = "dict" ) =>
            /\ resolved.exc = ""
            /\ resolved.param = ParamX
            /\ resolved.value = ValueAt(param_value_dict, DeepChunks(d))
            /\ ~IsNone(resolved.value)

\* the longest path was resolved, through every level of the structure
C20_Witness ==
    /\ Called /\ resolved # NotCalled
    /\ call.self.in_param_if_snpathref = StrV(DeepPath(MaxDepth))
    /\ resolved.exc = ""
    /\ resolved.param = ParamX
    /\ resolved.value = IntV(5)
    /\ DictGet(param_value_dict, <<"cval">>) = StructValue(MaxDepth)

\* the first segment of the path the last call addressed
FirstSegment ==
    IF ~IsNone(call.self.in_param_if_snref)
    THEN call.self.in_param_if_snref.s
    ELSE LET path == call.self.in_param_if_snpathref.s
             dots == { k \in 1..Len(path) : path[k] = "." }
         IN  IF dots = {} THEN path
             ELSE SubSeq(path, 1, (CHOOSE k \in dots : \A j \in dots : k <= j) - 1)

\* C16: when the first segment of the addressed path names no parameter of
\* the response, the resolver yields not-found without an exception and
\* without a document error, and a conditional call in the source state
\* returns false and leaves the active state unchanged.
C16_UnknownFirstSegment ==
    ( /\ Called /\ InSource /\ Conditional
      /\ \A k \in 1..Len(params) : params[k].short_name # FirstSegment ) =>
        /\ resolved # NotCalled
        /\ resolved.exc = ""
        /\ resolved.param.kind = "None"
        /\ Declined
        /\ doc_errors = <<>>

\* C13: every reference that was constructed without an assertion failure
\* and carries a VALUE has exactly one of in_param_if_snref and
\* in_param_if_snpathref; a VALUE with neither and a VALUE with both fail
\* the assertion, a VALUE with only in_param_if_snpathref passes it.
C13_ValueImpliesOneParameter ==
    \A self \in refs :
        ~IsNone(self.value) =>
            LET snref == ~IsNone(self.in_param_if_snref)
                snpathref == ~IsNone(self.in_param_if_snpathref)
                accepted == post_init_errors[self] = <<>>
            IN  /\ accepted => (snref /\ ~snpathref) \/ (~snref /\ snpathref)
                /\ (~snref /\ ~snpathref) => ~accepted
                /\ (snref /\ snpathref) => ~accepted
                /\ (~snref /\ snpathref) => accepted

\* the segments of a path: the runs of tokens between its dots
Segments(path) ==
    LET dots == { k \in 1..Len(path) : path[k] = "." }
        \* the k-th dot, the start of the path for k = 0, its end after the last
        Dot(k) == IF k = 0 THEN 0
                  ELSE IF k > Cardinality(dots) THEN Len(path) + 1
                  ELSE CHOOSE d \in dots : Cardinality({ e \in dots : e < d }) = k - 1
    IN  [ k \in 1..(Cardinality(dots) + 1) |->
            SubSeq(path, Dot(k - 1) + 1, Dot(k) - 1) ]

\* C22: a reference with both in_param_if_snref and in_param_if_snpathref
\* is evaluated on the parameter that in_param_if_snref names, as a path of
\* one segment, and ends as the same reference without in_param_if_snpathref
\* does; a reference with in_param_if_snpathref only is evaluated on the
\* chain of the segments between all dots of the path.
C22_SnrefPrecedence ==
    (Called /\ resolved # NotCalled) =>
        LET self == call.self
            both == ~IsNone(self.in_param_if_snref)
                    /\ ~IsNone(self.in_param_if_snpathref)
            path_only == IsNone(self.in_param_if_snref)
                         /\ ~IsNone(self.in_param_if_snpathref)
            alone == execute([self EXCEPT !.in_param_if_snpathref = NoneV],
                             call.before, params, param_value_dict)
        IN  /\ both =>
                  /\ resolved = _resolve_in_param_helper(
                                    params, param_value_dict,
                                    <<self.in_param_if_snref.s>>)
                  /\ resolved.param.kind # "None" =>
                         /\ resolved.param.short_name = self.in_param_if_snref.s
                         /\ resolved.value
                                = DictGet(param_value_dict, self.in_param_if_snref.s)
                  /\ ret = alone.ret
                  /\ CallActive = alone.active_state
                  /\ doc_errors = alone.errors
            /\ path_only =>
                  resolved = _resolve_in_param_helper(
                                 params, param_value_dict,
                                 Segments(self.in_param_if_snpathref.s))

\* a reference to the parameter val and to the path table.x fired on the
\* value of val, which differs from the value at the path
C22_Witness ==
    /\ Called /\ InSource /\ FoundParam
    /\ call.self.in_param_if_snref = StrV(<<"val">>)
    /\ call.self.in_param_if_snpathref = StrV(<<"table", ".", "x">>)
    /\ call.self.value = StrV(<<"5">>)
    /\ resolved.param.short_name = <<"val">>
    /\ resolved.value = IntV(5)
    /\ DictGet(param_value_dict, <<"table">>) = TupleV(<<<<"ROW_A">>, InnerX>>)
    /\ ret = "True"

\* C21: a call of execute changes nothing but the active state of the
\* machine it is given: the references with their transitions and states,
\* the parameter list with the default values and the value dictionary stay
\* as they are, and so does the active state of every other machine on the
\* same chart, in every interleaving of the calls.
C21_Frame ==
    [][ call' # NoCall =>
            /\ refs' = refs
            /\ post_init_errors' = post_init_errors
            /\ params' = params
            /\ param_value_dict' = param_value_dict
            /\ \A m \in DOMAIN active_state :
                   m # call'.machine => active_state'[m] = active_state[m]
            /\ DOMAIN active_state' = DOMAIN active_state ]_vars

\* the second machine fired on the physical default value of a parameter
\* that was not decoded, while the first machine is in another state
C21_Witness ==
    /\ Called /\ InSource /\ FoundParam
    /\ call.machine = "m2"
    /\ resolved.param.short_name = <<"dval">>
    /\ IsNone(resolved.value)
    /\ resolved.param.physical_default_value = IntV(5)
    /\ params = ResponseParams
    /\ ret = "True"
    /\ active_state["m2"] = "ACTIVE"
    /\ active_state["m1"] = "LOCKED"

(***************************************************************************)
(* The documents                                                           *)
(*                                                                         *)
(* Every document holds exactly one category.  A category declares         *)
(* entities with ids that are unique within the document: the states and   *)
(* transitions of its state charts and other identifiable elements.  It    *)
(* also holds transition references.                                       *)
(***************************************************************************)
OdxDocFragment(doc_name, doc_type) == [doc_name |-> doc_name, doc_type |-> doc_type]
OdxLinkId(local_id, doc_fragment) == [local_id |-> local_id, doc_fragment |-> doc_fragment]

ChartElem(name, states, transitions) ==
    [short_name |-> name, states |-> states, transitions |-> transitions]
TransitionElem(id, source, target) ==
    [id |-> id, source_snref |-> source, target_snref |-> target]
StateElem(id, name) == [id |-> id, short_name |-> name]
RefElem(id, doc_name, doc_type) ==
    [ref_id |-> id, ref_doc |-> OdxDocFragment(doc_name, doc_type)]

Docs ==
    [ a |-> [ tag |-> "DIAG-LAYER-CONTAINER", short_name |-> "dlc_a",
              version |-> "2.2",
              charts |-> << ChartElem(<<"chart1">>,
                                << StateElem("s1", <<"IDLE">>),
                                   StateElem("s2", <<"ACTIVE">>) >>,
                                << TransitionElem("st1", <<"IDLE">>, <<"ACTIVE">>) >>) >>,
              others |-> {},
              refs |-> << RefElem("st1", "dlc_a", "CONTAINER"),
                          RefElem("s1", "dlc_a", "CONTAINER") >> ],
      a2 |-> [ tag |-> "DIAG-LAYER-CONTAINER", short_name |-> "dlc_a",
               version |-> "2.2",
               charts |-> << ChartElem(<<"chart1">>,
                                 << StateElem("s1", <<"IDLE">>),
                                    StateElem("s2", <<"ACTIVE">>) >>,
                                 << TransitionElem("st1", <<"ACTIVE">>, <<"IDLE">>),
                                    TransitionElem("st2", <<"IDLE">>, <<"GONE">>) >>) >>,
               others |-> {"s3"},
               refs |-> <<>> ],
      b |-> [ tag |-> "DIAG-LAYER-CONTAINER", short_name |-> "dlc_b",
              version |-> "2.2",
              charts |-> << ChartElem(<<"chart2">>,
                                << StateElem("s1", <<"OFF">>),
                                   StateElem("s2", <<"ON">>) >>,
                                << TransitionElem("st1", <<"OFF">>, <<"ON">>) >>),
                            ChartElem(<<"chart3">>,
                                << StateElem("s3", <<"ON">>) >>,
                                << TransitionElem("st3", <<"ON">>, <<"ON">>) >>) >>,
              others |-> {},
              refs |-> << RefElem("st1", "dlc_b", "CONTAINER"),
                          RefElem("st1", "dlc_a", "CONTAINER"),
                          RefElem("st1", "dlc_a", "COMPARAM-SUBSET"),
                          RefElem("st2", "dlc_b", "CONTAINER") >> ],
      s |-> [ tag |-> "COMPARAM-SUBSET", short_name |-> "dlc_a",
              version |-> "2.2", charts |-> <<>>, others |-> {"st1"},
              refs |-> <<>> ],
      p |-> [ tag |-> "COMPARAM-SPEC", short_name |-> "dlc_a",
              version |-> "2.0", charts |-> <<>>, others |-> {"st1", "cp1"},
              refs |-> <<>> ],
      q |-> [ tag |-> "COMPARAM-SPEC", short_name |-> "spec_q",
              version |-> "2.2", charts |-> <<>>, others |-> {"st1"},
              refs |-> <<>> ] ]

\* Version(a) < Version(b) for the versions of Docs
VersionLess(a, b) == a = "2.0" /\ b = "2.2"

(***************************************************************************)
(* Categories and their entities                                           *)
(***************************************************************************)
\* a category object: uid tells apart the objects made from the same file
Category(uid, doc, doc_type) ==
    [uid |-> uid, doc |-> doc,
     doc_frag |-> OdxDocFragment(Docs[doc].short_name, doc_type)]

SeqRange(q) == { q[k] : k \in 1..Len(q) }

\* the containers come first
AllCategoriesContainersFirst ==
    diag_layer_containers \o comparam_subsets \o comparam_specs

\* the categories in the order in which refresh goes through them
AllCategories == comparam_subsets \o comparam_specs \o diag_layer_containers

\* an identifiable element of a category
Entity(c, id, kind) ==
    [cat |-> c.uid, odx_id |-> OdxLinkId(id, c.doc_frag), kind |-> kind]

Charts(c) == SeqRange(Docs[c.doc].charts)

StateTransitionsOf(c) ==
    { Entity(c, t.id, "StateTransition") :
        t \in UNION { SeqRange(ch.transitions) : ch \in Charts(c) } }

StatesOf(c) ==
    { Entity(c, st.id, "State") :
        st \in UNION { SeqRange(ch.states) : ch \in Charts(c) } }

OthersOf(c) == { Entity(c, id, "Other") : id \in Docs[c.doc].others }

\* a StateTransitionRef object of a category
RefsOf(c) == { [cat |-> c.uid, idx |-> k] : k \in 1..Len(Docs[c.doc].refs) }
RefCategory(r) == CHOOSE c \in SeqRange(AllCategories) : c.uid = r.cat
RefLink(r) ==
    LET elem == Docs[RefCategory(r).doc].refs[r.idx]
    IN  OdxLinkId(elem.ref_id, elem.ref_doc)

NoneObj == [kind |-> "None"]

(***************************************************************************)
(* Database._process_xml_tree                                              *)
(***************************************************************************)
\* the collection and the fragment type a category goes to (lines 95-116)
CategoryKind(tag, version) ==
    CASE tag = "DIAG-LAYER-CONTAINER" -> "CONTAINER"
      [] tag = "COMPARAM-SUBSET" -> "COMPARAM-SUBSET"
      [] tag = "COMPARAM-SPEC" ->
             IF VersionLess(version, "2.2") THEN "COMPARAM-SUBSET"
             ELSE "COMPARAM-SPEC"

\* add_odx_file(doc): parse the document and keep its category
AddOdxFile(doc) ==
    LET root == Docs[doc]
        kind == CategoryKind(root.tag, root.version)
        c == Category(Len(AllCategories) + 1, doc, kind)
    IN  /\ Len(AllCategories) < MaxDocs
        /\ db_errors' = IF model_version # "None" /\ model_version # root.version
                        THEN odxraise(<<>>, "DifferentVersions")
                        ELSE <<>>
        /\ model_version' = root.version
        /\ diag_layer_containers' =
               IF kind = "CONTAINER" THEN Append(diag_layer_containers, c)
               ELSE diag_layer_containers
        /\ comparam_subsets' =
               IF kind = "COMPARAM-SUBSET" THEN Append(comparam_subsets, c)
               ELSE comparam_subsets
        /\ comparam_specs' =
               IF kind = "COMPARAM-SPEC" THEN Append(comparam_specs, c)
               ELSE comparam_specs
        /\ last_op' = "add"
        /\ UNCHANGED <<odxlinks, state_transition, snref_states, sweep_log,
                       refreshed_at, evalVars>>

(***************************************************************************)
(* The link database: Database._build_odxlinks, OdxLinkDatabase            *)
(***************************************************************************)
\* StateTransition._build_odxlinks
StateTransition_build_odxlinks(self) == (self.odx_id :> self)

\* the links of a category: those of all its identifiable elements
Category_build_odxlinks(c) ==
    LET dicts == { StateTransition_build_odxlinks(e) : e \in StateTransitionsOf(c) }
                 \cup { (e.odx_id :> e) : e \in StatesOf(c) \cup OthersOf(c) }
    IN  [ k \in UNION { DOMAIN d : d \in dicts } |->
            (CHOOSE d \in dicts : k \in DOMAIN d)[k] ]

\* dict.update(other): the entries of other replace those of the same key
dict_update(result, other) == other @@ result

RECURSIVE UpdateEach(_, _)
UpdateEach(result, cats) ==
    IF cats = <<>> THEN result
    ELSE UpdateEach(dict_update(result, Category_build_odxlinks(Head(cats))),
                    Tail(cats))

\* Database._build_odxlinks
Database_build_odxlinks ==
    UpdateEach(UpdateEach(UpdateEach(<<>>, comparam_subsets), comparam_specs),
               diag_layer_containers)

\* the link database of the last refresh is kept
OdxLinkDatabaseKept == odxlinks

\* OdxLinkDatabase(): an empty link database
NewOdxLinkDatabase == <<>>

\* OdxLinkDatabase.update: register every entry; a key that is already
\* registered is a DuplicateId error
OdxLinkDatabase_update(db, new_entries) ==
    IF DOMAIN db \cap DOMAIN new_entries # {}
    THEN [db |-> db, errors |-> <<"DuplicateId">>]
    ELSE [db |-> new_entries @@ db, errors |-> <<>>]

\* OdxLinkDatabase.resolve(ref, expected_type)
OdxLinkDatabase_resolve(db, link, expected_type) ==
    IF link \notin DOMAIN db
    THEN [obj |-> NoneObj, errors |-> <<"UnresolvedLink">>]
    ELSE IF db[link].kind # expected_type
    THEN [obj |-> NoneObj, errors |-> <<"TypeMismatch">>]
    ELSE [obj |-> db[link], errors |-> <<>>]

\* the reference resolves to an entity of the wrong type
StateTransitionRef_resolve_odxlinks_as_state(self, db) ==
    OdxLinkDatabase_resolve(db, RefLink(self), "State")

\* a reference that is resolved already keeps its target
StateTransitionRef_resolve_odxlinks_once(self, db) ==
    IF self \in DOMAIN state_transition /\ state_transition[self] # NoneObj
    THEN [obj |-> state_transition[self], errors |-> <<>>]
    ELSE OdxLinkDatabase_resolve(db, RefLink(self), "StateTransition")

\* StateTransitionRef._resolve_odxlinks
StateTransitionRef_resolve_odxlinks(self, db) ==
    OdxLinkDatabase_resolve(db, RefLink(self), "StateTransition")

(***************************************************************************)
(* Short-name resolution: StateTransition._resolve_snrefs                  *)
(***************************************************************************)
\* the concatenation of a sequence of sequences
RECURSIVE Flatten(_)
Flatten(qs) == IF qs = <<>> THEN <<>> ELSE Head(qs) \o Flatten(Tail(qs))

\* odxrequire(obj): a missing object is an error
odxrequire(obj) ==
    IF obj = NoneObj THEN [obj |-> NoneObj, errors |-> <<"MissingRequired">>]
    ELSE [obj |-> obj, errors |-> <<>>]

\* SnRefContext(): no state chart is active
SnRefContext == [state_chart |-> NoneObj]

\* the transition objects of a chart, with the chart the context holds
\* while they are resolved
ChartTransitions(c) ==
    { [self |-> Entity(c, t.id, "StateTransition"), elem |-> t,
       context |-> [state_chart |-> ch]] :
        <<ch, t>> \in UNION { {ch} \X SeqRange(ch.transitions) : ch \in Charts(c) } }

\* the states of every chart of the category are candidates
StateTransition_resolve_snrefs_any_chart(c, elem, context) ==
    LET chs == Docs[c.doc].charts
        states == Flatten([ i \in 1..Len(chs) |-> chs[i].states ])
        source == resolve_snref(elem.source_snref, states, NoneObj)
        target == resolve_snref(elem.target_snref, states, NoneObj)
        AsState(obj) == IF obj = NoneObj THEN NoneObj ELSE Entity(c, obj.id, "State")
    IN  [assigned |-> TRUE,
         source_state |-> AsState(source.obj), target_state |-> AsState(target.obj),
         errors |-> source.errors \o target.errors]

\* lines 72-75: without a state chart in the context nothing is assigned
StateTransition_resolve_snrefs(c, elem, context) ==
    LET chart == odxrequire(context.state_chart)
    IN  IF chart.obj = NoneObj
        THEN [assigned |-> FALSE, source_state |-> NoneObj,
              target_state |-> NoneObj, errors |-> chart.errors]
        ELSE LET states == chart.obj.states
                 source == resolve_snref(elem.source_snref, states, NoneObj)
                 target == resolve_snref(elem.target_snref, states, NoneObj)
                 AsState(obj) ==
                     IF obj = NoneObj THEN NoneObj ELSE Entity(c, obj.id, "State")
             IN  [assigned |-> TRUE,
                  source_state |-> AsState(source.obj),
                  target_state |-> AsState(target.obj),
                  errors |-> source.errors \o target.errors]

(***************************************************************************)
(* Database.refresh                                                        *)
(***************************************************************************)
\* the StateTransitionRef objects of a category, in document order
RefSeq(c) == [ k \in 1..Len(Docs[c.doc].refs) |-> [cat |-> c.uid, idx |-> k] ]

\* the StateTransition objects of a category, chart by chart
ChartTransitionSeq(c) ==
    LET chs == Docs[c.doc].charts
    IN  Flatten([ i \in 1..Len(chs) |->
                    [ k \in 1..Len(chs[i].transitions) |->
                        [self |-> Entity(c, chs[i].transitions[k].id, "StateTransition"),
                         elem |-> chs[i].transitions[k],
                         context |-> [state_chart |-> chs[i]]] ] ])

\* one step of a refresh: what was done, to which category, what it reported
Event(phase, cat, errors) == [phase |-> phase, cat |-> cat, errors |-> errors]

\* category._resolve_odxlinks(odxlinks): what it reports
LinkErrors(c, db) ==
    Flatten([ k \in 1..Len(RefSeq(c)) |->
                StateTransitionRef_resolve_odxlinks(RefSeq(c)[k], db).errors ])

\* category._resolve_snrefs(context): what it reports
SnrefErrors(c) ==
    LET ts == ChartTransitionSeq(c)
    IN  Flatten([ k \in 1..Len(ts) |->
            StateTransition_resolve_snrefs(c, ts[k].elem, ts[k].context).errors ])

\* the loops of lines 171-178, 139-146, 154-159 and 161-166
BuildEvents(cats) ==
    [ i \in 1..Len(cats) |-> Event("build_odxlinks", cats[i].uid, <<>>) ]
LinkEvents(cats, db) ==
    [ i \in 1..Len(cats) |->
        Event("resolve_odxlinks", cats[i].uid, LinkErrors(cats[i], db)) ]
FinalizeEvents(cats) ==
    [ i \in 1..Len(cats) |-> Event("finalize_init", cats[i].uid, <<>>) ]
SnrefEvents(cats) ==
    [ i \in 1..Len(cats) |->
        Event("resolve_snrefs", cats[i].uid, SnrefErrors(cats[i])) ]

\* every category is built and resolved before the next one is built
RefreshEventsByCategory(cats) ==
    Flatten([ i \in 1..Len(cats) |->
        LET built == OdxLinkDatabase_update(NewOdxLinkDatabase,
                                            UpdateEach(<<>>, SubSeq(cats, 1, i)))
        IN  BuildEvents(<<cats[i]>>)
            \o << Event("update_odxlinks", 0, built.errors) >>
            \o LinkEvents(<<cats[i]>>, built.db)
            \o FinalizeEvents(<<cats[i]>>)
            \o SnrefEvents(<<cats[i]>>) ])

\* lines 134-166: the steps of refresh, in the order of the statements
RefreshEvents(cats) ==
    LET built == OdxLinkDatabase_update(NewOdxLinkDatabase, Database_build_odxlinks)
    IN  BuildEvents(cats)
        \o << Event("update_odxlinks", 0, built.errors) >>
        \o LinkEvents(cats, built.db)
        \o FinalizeEvents(cats)
        \o SnrefEvents(cats)

Refresh ==
    LET built == OdxLinkDatabase_update(NewOdxLinkDatabase, Database_build_odxlinks)
        db == built.db
        cats == AllCategories
        events == RefreshEvents(cats)
    IN  /\ odxlinks' = db
        /\ state_transition' =
               [ r \in UNION { RefsOf(c) : c \in SeqRange(cats) } |->
                   StateTransitionRef_resolve_odxlinks(r, db).obj ]
        /\ snref_states' =
               [ e \in UNION { StateTransitionsOf(c) : c \in SeqRange(cats) } |->
                   LET c == CHOOSE d \in SeqRange(cats) : d.uid = e.cat
                       t == CHOOSE u \in ChartTransitions(c) : u.self = e
                       r == StateTransition_resolve_snrefs(c, t.elem, t.context)
                   IN  [source_state |-> r.source_state,
                        target_state |-> r.target_state] ]
        /\ sweep_log' = events
        /\ db_errors' = Flatten([ k \in 1..Len(sweep_log') |-> sweep_log'[k].errors ])
        /\ last_op' = "refresh"
        /\ refreshed_at' = IF Len(refreshed_at) < 2
                           THEN Append(refreshed_at, Len(cats))
                           ELSE <<refreshed_at[2], Len(cats)>>
        /\ UNCHANGED <<comparam_subsets, comparam_specs, diag_layer_containers,
                       model_version, evalVars>>

\* the ids of the transitions of the documents
TransitionIds ==
    { t.id : t \in UNION { SeqRange(ch.transitions) :
                 ch \in UNION { SeqRange(Docs[d].charts) : d \in DOMAIN Docs } } }

\* transition._resolve_snrefs(context), called on the transition id of the
\* i-th category
ResolveSnrefs(i, id, context) ==
    /\ i <= Len(AllCategories)
    /\ \E t \in ChartTransitions(AllCategories[i]) :
           /\ t.elem.id = id
           /\ LET r == StateTransition_resolve_snrefs(AllCategories[i], t.elem, context)
              IN  /\ snref_states' =
                         IF r.assigned
                         THEN [ e \in DOMAIN snref_states \cup {t.self} |->
                                  IF e = t.self
                                  THEN [source_state |-> r.source_state,
                                        target_state |-> r.target_state]
                                  ELSE snref_states[e] ]
                         ELSE snref_states
                  /\ db_errors' = r.errors
    /\ last_op' = "resolve_snrefs"
    /\ UNCHANGED <<comparam_subsets, comparam_specs, diag_layer_containers,
                   model_version, odxlinks, state_transition, sweep_log,
                   refreshed_at, evalVars>>

DocNames == DOMAIN Docs

InitDb ==
    /\ active_state = [m \in Machines |-> "IDLE"]
    /\ refs = ChartRefs([value |-> NoneV, snref |-> NoneV, snpathref |-> NoneV])
    /\ post_init_errors = [self \in refs |-> __post_init__(self)]
    /\ params = <<>>
    /\ param_value_dict = DictV(<<>>)
    /\ call = NoCall
    /\ ret = "None"
    /\ doc_errors = <<>>
    /\ resolved = NotCalled
    /\ DbInit

NextDb ==
    \/ \E doc \in DocNames : AddOdxFile(doc)
    \/ Refresh
    \/ \E i \in 1..MaxDocs, id \in TransitionIds : ResolveSnrefs(i, id, SnRefContext)

SpecDb == InitDb /\ [][NextDb]_vars

(***************************************************************************)
(* Properties of the link database                                         *)
(***************************************************************************)
\* every identifiable element of every category
AllEntities ==
    UNION { StateTransitionsOf(c) \cup StatesOf(c) \cup OthersOf(c) :
              c \in SeqRange(AllCategories) }

AllCategoryRefs == UNION { RefsOf(c) : c \in SeqRange(AllCategories) }

\* C9: building the link database reports DuplicateId when two entities
\* have the same (fragment, local id) key; an entity whose key no other
\* entity has is kept, also when its local id occurs in another fragment;
\* no entity is replaced without that error.
C9_DuplicateId ==
    last_op = "refresh" =>
        /\ ( \E e1, e2 \in AllEntities : e1 # e2 /\ e1.odx_id = e2.odx_id )
               => \E k \in 1..Len(db_errors) : db_errors[k] = "DuplicateId"
        /\ \A e \in AllEntities :
               ( \A e2 \in AllEntities : e2.odx_id = e.odx_id => e2 = e )
                   => ( e.odx_id \in DOMAIN odxlinks /\ odxlinks[e.odx_id] = e )
        /\ \A e \in AllEntities :
               \/ ( e.odx_id \in DOMAIN odxlinks /\ odxlinks[e.odx_id] = e )
               \/ \E k \in 1..Len(db_errors) : db_errors[k] = "DuplicateId"

\* C10: after refresh, the state_transition of every reference is the
\* StateTransition entity that a category registered under the reference's
\* link id and that the link database holds for it, or it is absent and an
\* UnresolvedLink or TypeMismatch error was reported.
C10_ExactTarget ==
    last_op = "refresh" =>
        /\ DOMAIN state_transition = AllCategoryRefs
        /\ \A r \in AllCategoryRefs :
               LET target == state_transition[r]
               IN  \/ /\ target # NoneObj
                      /\ target.kind = "StateTransition"
                      /\ target.odx_id = RefLink(r)
                      /\ target \in AllEntities
                      /\ odxlinks[RefLink(r)] = target
                   \/ /\ target = NoneObj
                      /\ \E k \in 1..Len(db_errors) :
                             db_errors[k] \in {"UnresolvedLink", "TypeMismatch"}

\* a reference to a transition of a category added later is resolved, and
\* a reference to a state is not
C10_Witness ==
    /\ last_op = "refresh"
    /\ \E r \in DOMAIN state_transition :
           /\ state_transition[r] # NoneObj
           /\ state_transition[r].cat > r.cat
    /\ \E r \in DOMAIN state_transition :
           /\ state_transition[r] = NoneObj
           /\ RefLink(r) \in DOMAIN odxlinks

(***************************************************************************)
(* Properties of refresh                                                   *)
(***************************************************************************)
\* C11: a refresh directly after a refresh, with no document added in
\* between, leaves the resolved model as the first one made it: the same
\* link database, the same target for every link reference, the same source
\* and target state for every transition, the same diagnostics and the same
\* categories; nothing accumulates.
C11_RefreshIdempotent ==
    [][ (last_op = "refresh" /\ last_op' = "refresh") =>
            /\ odxlinks' = odxlinks
            /\ state_transition' = state_transition
            /\ snref_states' = snref_states
            /\ db_errors' = db_errors
            /\ sweep_log' = sweep_log
            /\ comparam_subsets' = comparam_subsets
            /\ comparam_specs' = comparam_specs
            /\ diag_layer_containers' = diag_layer_containers ]_vars

\* two refreshes of the same two or more categories, with resolved and
\* unresolved references
C11_Witness ==
    /\ last_op = "refresh"
    /\ Len(refreshed_at) = 2
    /\ refreshed_at[1] = refreshed_at[2]
    /\ refreshed_at[2] = Len(AllCategories)
    /\ Len(AllCategories) >= 2
    /\ odxlinks # <<>>
    /\ \E r \in DOMAIN state_transition : state_transition[r] # NoneObj
    /\ db_errors # <<>>

\* the categories in the order of the sweeps
SweepOrder == comparam_subsets \o comparam_specs \o diag_layer_containers

\* the place of the category uid in the sweeps
SweepPosition(uid) == CHOOSE i \in 1..Len(SweepOrder) : SweepOrder[i].uid = uid

\* the link database built from scratch: under every declared link id the
\* entity of the last category of the sweep that declares it
ScratchLinks ==
    [ k \in { e.odx_id : e \in AllEntities } |->
        CHOOSE e \in AllEntities :
            /\ e.odx_id = k
            /\ \A e2 \in AllEntities :
                   e2.odx_id = k => SweepPosition(e2.cat) <= SweepPosition(e.cat) ]

\* the target of every reference, resolved from scratch
ScratchTargets ==
    [ r \in AllCategoryRefs |->
        IF RefLink(r) \in DOMAIN ScratchLinks
           /\ ScratchLinks[RefLink(r)].kind = "StateTransition"
        THEN ScratchLinks[RefLink(r)]
        ELSE NoneObj ]

\* the state of the chart ch of category c with the short name, if any
StateNamed(c, ch, name) ==
    IF \E st \in SeqRange(ch.states) : st.short_name = name
    THEN Entity(c, (CHOOSE st \in SeqRange(ch.states) : st.short_name = name).id,
                "State")
    ELSE NoneObj

\* the chart of category c that declares the transition id
OwningChart(c, id) ==
    CHOOSE ch \in Charts(c) : \E t \in SeqRange(ch.transitions) : t.id = id

\* the declaration of the transition id in category c
TransitionNamed(c, id) ==
    CHOOSE t \in SeqRange(OwningChart(c, id).transitions) : t.id = id

\* the states of every transition, resolved from scratch in its own chart
ScratchStates ==
    [ e \in UNION { StateTransitionsOf(c) : c \in SeqRange(AllCategories) } |->
        LET c == CHOOSE d \in SeqRange(AllCategories) : d.uid = e.cat
            ch == OwningChart(c, e.odx_id.local_id)
            t == TransitionNamed(c, e.odx_id.local_id)
        IN  [source_state |-> StateNamed(c, ch, t.source_snref),
             target_state |-> StateNamed(c, ch, t.target_snref)] ]

\* C12: after a refresh the resolved model depends on the documents added
\* so far only, not on the refreshes made in between: every category is in
\* the collection of its kind, in the order of the additions, and the link
\* database, the targets of the references and the states of the
\* transitions are what one refresh of these categories yields from scratch.
C12_StagedLoad ==
    last_op = "refresh" =>
        /\ { c.uid : c \in SeqRange(SweepOrder) } = 1..Len(SweepOrder)
        /\ \A coll \in {comparam_subsets, comparam_specs, diag_layer_containers} :
               \A i, j \in 1..Len(coll) : i < j => coll[i].uid < coll[j].uid
        /\ \A c \in SeqRange(comparam_subsets) :
               CategoryKind(Docs[c.doc].tag, Docs[c.doc].version) = "COMPARAM-SUBSET"
        /\ \A c \in SeqRange(comparam_specs) :
               CategoryKind(Docs[c.doc].tag, Docs[c.doc].version) = "COMPARAM-SPEC"
        /\ \A c \in SeqRange(diag_layer_containers) :
               CategoryKind(Docs[c.doc].tag, Docs[c.doc].version) = "CONTAINER"
        /\ odxlinks = ScratchLinks
        /\ state_transition = ScratchTargets
        /\ snref_states = ScratchStates

\* a refresh of one category, the addition of a second one and a refresh
\* of both, after which a reference of the first category has its target in
\* the second
C12_Witness ==
    /\ last_op = "refresh"
    /\ refreshed_at = <<1, 2>>
    /\ Len(AllCategories) = 2
    /\ \E r \in DOMAIN state_transition :
           /\ r.cat = 1
           /\ state_transition[r] # NoneObj
           /\ state_transition[r].cat = 2

\* the steps of the last refresh before step i
Earlier(i, phase, uid) ==
    \E j \in 1..(i - 1) : sweep_log[j].phase = phase /\ sweep_log[j].cat = uid

\* C17: within one refresh no category's links are resolved before the
\* link database is built from every category and filled, and no category's
\* short names are resolved before the links of every category of every
\* kind are resolved; every category goes through both sweeps, and the link
\* database holds the link ids of all of them.
C17_PhaseBarriers ==
    last_op = "refresh" =>
        /\ \A i \in 1..Len(sweep_log) :
               sweep_log[i].phase = "resolve_odxlinks" =>
                   /\ \A c \in SeqRange(SweepOrder) :
                          Earlier(i, "build_odxlinks", c.uid)
                   /\ Earlier(i, "update_odxlinks", 0)
        /\ \A i \in 1..Len(sweep_log) :
               sweep_log[i].phase = "resolve_snrefs" =>
                   \A c \in SeqRange(SweepOrder) :
                       Earlier(i, "resolve_odxlinks", c.uid)
        /\ \A c \in SeqRange(SweepOrder) :
               /\ Earlier(Len(sweep_log) + 1, "resolve_odxlinks", c.uid)
               /\ Earlier(Len(sweep_log) + 1, "resolve_snrefs", c.uid)
        /\ DOMAIN odxlinks = { e.odx_id : e \in AllEntities }

\* a refresh of a subset and of two containers, in which a reference of the
\* container that is swept first has its target in the one swept later
C17_Witness ==
    /\ last_op = "refresh"
    /\ comparam_subsets # <<>>
    /\ Len(diag_layer_containers) >= 2
    /\ \E r \in DOMAIN state_transition :
           /\ state_transition[r] # NoneObj
           /\ SweepPosition(state_transition[r].cat) > SweepPosition(r.cat)

\* the categories a sweep of the last refresh went through, in order
Visited(phase) ==
    LET visits == SelectSeq(sweep_log, LAMBDA e : e.phase = phase)
    IN  [ k \in 1..Len(visits) |-> visits[k].cat ]

\* C18: the sweep that resolves links and the sweep that resolves short
\* names each go through all comparam subsets, then all comparam specs,
\* then all diagnostic layer containers, each collection in its own order.
C18_SweepOrder ==
    last_op = "refresh" =>
        \A phase \in {"resolve_odxlinks", "resolve_snrefs"} :
            Visited(phase) = [ k \in 1..Len(SweepOrder) |-> SweepOrder[k].uid ]

\* a container, a comparam spec and a comparam subset were added in this
\* order and swept in the opposite one
C18_Witness ==
    /\ last_op = "refresh"
    /\ comparam_subsets # <<>> /\ comparam_specs # <<>>
    /\ diag_layer_containers # <<>>
    /\ diag_layer_containers[1].uid < comparam_specs[1].uid
    /\ comparam_specs[1].uid < comparam_subsets[1].uid
    /\ Visited("resolve_snrefs")[1] = comparam_subsets[1].uid
    /\ Visited("resolve_odxlinks")[Len(SweepOrder)] = 1

\* the states of a chart of category c, as entities
ChartStates(c, ch) == { Entity(c, st.id, "State") : st \in SeqRange(ch.states) }

\* C19: after a refresh the source state and the target state of every
\* transition are states of the chart that the context held when the
\* transition was resolved, its own chart, and never states of another
\* chart of the category, or they are absent and the unknown short name was
\* reported; resolving a transition with a context that holds no chart is
\* an error.
C19_OwnChartStates ==
    /\ last_op = "refresh" =>
           \A c \in SeqRange(SweepOrder) : \A ch \in Charts(c) :
               \A t \in SeqRange(ch.transitions) :
                   LET r == snref_states[Entity(c, t.id, "StateTransition")]
                   IN  \A st \in {r.source_state, r.target_state} :
                           /\ \A ch2 \in Charts(c) \ {ch} : st \notin ChartStates(c, ch2)
                           /\ \/ st \in ChartStates(c, ch)
                              \/ /\ st = NoneObj
                                 /\ \E k \in 1..Len(db_errors) :
                                        db_errors[k] = "UnknownShortName"
    /\ last_op = "resolve_snrefs" =>
           \E k \in 1..Len(db_errors) : db_errors[k] = "MissingRequired"

\* the second chart of a container has a state with the short name of a
\* state of the first chart, and its transition has its own state
C19_Witness ==
    /\ last_op = "refresh"
    /\ \E c \in SeqRange(diag_layer_containers) :
           /\ c.doc = "b"
           /\ snref_states[Entity(c, "st3", "StateTransition")].source_state
                  = Entity(c, "s3", "State")
           /\ snref_states[Entity(c, "st1", "StateTransition")].target_state
                  = Entity(c, "s2", "State")

====
